---- MODULE Spec2Model ----
(***************************************************************************)
(* The message-application engine of go-filecoin (package core):           *)
(* ApplyMessage, attemptApplyMessage, ApplyMessages, ProcessBlock,         *)
(* ProcessTipSet and CallQueryMethod, over a state tree and a cached state *)
(* tree (overlay).                                                         *)
(***************************************************************************)
EXTENDS Integers, Sequences, FiniteSets, TLC

VARIABLES
    st,      \* the base state tree: a function from the addresses it holds to actors
    pc,      \* "idle", or "done" once a call has returned and its response is in hand
    call,    \* the call that returned last: its operation and arguments
    pre,     \* the base state tree as it was when that call began
    resp     \* what that call returned

vars == <<st, pc, call, pre, resp>>

----------------------------------------------------------------------------
(* Bounds of the model *)

MaxNonce == 1    \* message nonces range over 0..MaxNonce
MaxValue == 1    \* message values range over -1..MaxValue
MaxBatch == 2    \* the longest message sequence handed to ApplyMessages

----------------------------------------------------------------------------
(* Data model *)

Addrs == {"a1", "a2", "a3"}

\* An optional (pointer) value: <<>> is nil, <<x>> is a pointer to x.
Nil == <<>>
Some(x) == <<x>>

\* actor.Actor: code is "nil" for the empty actor, "account" for the account
\* actor, "miner" for some other builtin actor.
Actor(code, nonce, balance) == [code |-> code, nonce |-> nonce, balance |-> balance]

\* &actor.Actor{}: the empty, upgradable actor made for a receiver
EmptyActor == Actor("nil", 0, 0)

\* types.Message, as far as the engine reads it
Messages == [from : Addrs, to : Addrs, nonce : 0..MaxNonce, value : (-1)..MaxValue]

----------------------------------------------------------------------------
(* Errors: a kind (what the predicates of vm/errors test) and a cause *)

Err(kind, cause) == [kind |-> kind, cause |-> cause]
NilErr == Err("nil", "nil")

IsFault(err) == err.kind = "fault"
ShouldRevert(err) == err.kind = "revert"
IsApplyErrorPermanent(err) == err.kind = "permanent"
IsApplyErrorTemporary(err) == err.kind = "temporary"

NewFaultError(cause) == Err("fault", cause)
FaultErrorWrap(err, cause) == Err("fault", cause)
NewRevertError(cause) == Err("revert", cause)
ApplyErrorPermanentWrapf(err) == Err("permanent", err.cause)
ApplyErrorTemporaryWrapf(err) == Err("temporary", err.cause)

errAccountNotFound == NewRevertError("account not found")
errNonceTooHigh == NewRevertError("nonce too high")
errNonceTooLow == NewRevertError("nonce too low")
errNonAccountActor == NewRevertError("message from non-account actor")
errSelfSend == NewRevertError("cannot send to self")

\* errors.Errors[...] of the VM: revert errors with an exit code
ErrCannotTransferNegativeValue == NewRevertError("cannot transfer negative values")
ErrInsufficientBalance == NewRevertError("not enough balance")

\* the state tree's own errors
ErrActorNotFound == Err("notfound", "actor not found")
ErrStorage == Err("storage", "datastore failure")
IsActorNotFoundError(err) == err.kind = "notfound"

----------------------------------------------------------------------------
(* The environment of one ApplyMessage call: what the VM's actor code does  *)
(* once the value has been transferred, and which state-tree or account     *)
(* operation, if any, fails with a storage error.                           *)

VMOutcomes == {"ok", "revert", "fault", "bad"}
FailPoints == {"getFrom", "getTo", "upgrade", "commit", "reGet", "set"}

Envs == {[vm |-> o, fail |-> "none"] : o \in VMOutcomes}
        \cup {[vm |-> "ok", fail |-> f] : f \in FailPoints}

----------------------------------------------------------------------------
(* state.Tree *)

TreeGetActor(t, a, failing) ==
    IF failing THEN [actor |-> Nil, err |-> ErrStorage]
    ELSE IF a \in DOMAIN t THEN [actor |-> Some(t[a]), err |-> NilErr]
    ELSE [actor |-> Nil, err |-> ErrActorNotFound]

TreeSetActor(t, a, act) == [x \in DOMAIN t \cup {a} |-> IF x = a THEN act ELSE t[x]]

\* GetOrCreateActor returns the creator's actor for an absent address; it does
\* not install it in the tree.
TreeGetOrCreateActor(t, a, creator, failing) ==
    LET g == TreeGetActor(t, a, failing)
    IN  IF IsActorNotFoundError(g.err) THEN [actor |-> Some(creator), err |-> NilErr]
        ELSE g

(* state.CachedTree: a read-through cache over a tree; writes stay in cache *)
(* until Commit.                                                            *)

NewCachedStateTree(t) == [st |-> t, cache |-> [x \in {} |-> EmptyActor]]

CachedGetActor(ct, a, failing) ==
    IF a \in DOMAIN ct.cache THEN [ct |-> ct, actor |-> Some(ct.cache[a]), err |-> NilErr]
    ELSE LET g == TreeGetActor(ct.st, a, failing)
         IN  IF g.err # NilErr THEN [ct |-> ct, actor |-> Nil, err |-> g.err]
             ELSE [ct |-> [ct EXCEPT !.cache = TreeSetActor(ct.cache, a, g.actor[1])],
                   actor |-> g.actor, err |-> NilErr]

CachedGetOrCreateActor(ct, a, creator, failing) ==
    IF a \in DOMAIN ct.cache THEN [ct |-> ct, actor |-> Some(ct.cache[a]), err |-> NilErr]
    ELSE LET g == TreeGetOrCreateActor(ct.st, a, creator, failing)
         IN  IF g.err # NilErr THEN [ct |-> ct, actor |-> Nil, err |-> g.err]
             ELSE [ct |-> [ct EXCEPT !.cache = TreeSetActor(ct.cache, a, g.actor[1])],
                   actor |-> g.actor, err |-> NilErr]

\* A write through a pointer the cache handed out (fromActor, toActor)
CachedWrite(ct, a, act) == [ct EXCEPT !.cache = TreeSetActor(ct.cache, a, act)]

\* Commit flushes every cached actor into the base tree, or fails and
\* flushes none: the overlay is committed or discarded atomically.
CachedCommit(ct, t, failing) ==
    IF failing /\ DOMAIN ct.cache # {}
    THEN [st |-> t, err |-> NewRevertError("could not commit cached actors")]
    ELSE [st |-> [x \in DOMAIN t \cup DOMAIN ct.cache |->
                    IF x \in DOMAIN ct.cache THEN ct.cache[x] ELSE t[x]],
          err |-> NilErr]

\* account.UpgradeActor: the empty actor becomes an account actor
UpgradeActor(act) == [act EXCEPT !.code = "account"]

----------------------------------------------------------------------------
(* vm.Send: the value transfer, then the receiver's method. What the method *)
(* does is the environment's choice (outcome).                              *)

Transfer(fromActor, toActor, value) ==
    IF value < 0
    THEN [from |-> fromActor, to |-> toActor, err |-> ErrCannotTransferNegativeValue]
    ELSE IF fromActor.balance < value
    THEN [from |-> fromActor, to |-> toActor, err |-> ErrInsufficientBalance]
    ELSE [from |-> [fromActor EXCEPT !.balance = @ - value],
          to |-> [toActor EXCEPT !.balance = @ + value],
          err |-> NilErr]

VMSend(ct, msg, fromActor, toActor, outcome) ==
    LET tr == Transfer(fromActor, toActor, msg.value)
        moved == CachedWrite(CachedWrite(ct, msg.from, tr.from), msg.to, tr.to)
    IN  IF tr.err = ErrCannotTransferNegativeValue
        THEN [ct |-> ct, ret |-> <<>>, exitCode |-> 3, err |-> tr.err]
        ELSE IF tr.err = ErrInsufficientBalance
        THEN [ct |-> ct, ret |-> <<>>, exitCode |-> 2, err |-> tr.err]
        ELSE IF outcome = "ok"
        THEN [ct |-> moved, ret |-> <<"out">>, exitCode |-> 0, err |-> NilErr]
        ELSE IF outcome = "revert"
        THEN [ct |-> moved, ret |-> <<>>, exitCode |-> 1,
              err |-> NewRevertError("actor method reverted")]
        ELSE IF outcome = "fault"
        THEN [ct |-> moved, ret |-> <<>>, exitCode |-> 1,
              err |-> NewFaultError("vm storage corrupted")]
        ELSE [ct |-> moved, ret |-> <<>>, exitCode |-> 1,
              err |-> Err("other", "plain error")]

----------------------------------------------------------------------------
(* attemptApplyMessage *)

Attempt(ct, receipt, err) == [ct |-> ct, receipt |-> receipt, err |-> err]

\* The nonce check
CheckNonce(msg, fromActor) ==
    IF msg.nonce < fromActor.nonce THEN errNonceTooLow
    ELSE IF msg.nonce > fromActor.nonce THEN errNonceTooHigh
    ELSE NilErr

\* The receipt of a VM return s that is no fault
Receive(s) ==
    IF IsFault(s.err) THEN Attempt(s.ct, Nil, s.err)
    ELSE Attempt(s.ct, Some([ExitCode |-> s.exitCode, Return |-> s.ret]), s.err)

\* Faulty variant: an empty sender is not upgraded
UpgradeCheckAndSend_NoUpgrade(ct, msg, fromActor0, toActor, env) ==
    IF fromActor0.code # "account"
    THEN Attempt(ct, Nil, errNonAccountActor)
    ELSE IF CheckNonce(msg, fromActor0) # NilErr
    THEN Attempt(ct, Nil, CheckNonce(msg, fromActor0))
    ELSE Receive(VMSend(ct, msg, fromActor0, toActor, env.vm))

\* From the upgrade of an empty sender to the VM's return
UpgradeCheckAndSend(ct, msg, fromActor0, toActor, env) ==
    LET upgrading == fromActor0.code = "nil"
        fromActor == IF upgrading THEN UpgradeActor(fromActor0) ELSE fromActor0
        ct1 == IF upgrading THEN CachedWrite(ct, msg.from, fromActor) ELSE ct
    IN  IF upgrading /\ env.fail = "upgrade"
        THEN Attempt(ct, Nil, FaultErrorWrap(ErrStorage, "failed to upgrade empty actor"))
        ELSE IF fromActor.code # "account"
        THEN Attempt(ct1, Nil, errNonAccountActor)
        ELSE IF CheckNonce(msg, fromActor) # NilErr
        THEN Attempt(ct1, Nil, CheckNonce(msg, fromActor))
        ELSE Receive(VMSend(ct1, msg, fromActor, toActor, env.vm))

\* From the receiver's lookup on, f being the sender's lookup
ReceiverOn(msg, env, f, t) ==
    IF t.err # NilErr
    THEN Attempt(t.ct, Nil, FaultErrorWrap(t.err, "failed to get To actor"))
    ELSE UpgradeCheckAndSend(t.ct, msg, f.actor[1], t.actor[1], env)

\* Faulty variant: the send to self is rejected before the sender is looked at
SenderOn_SelfSendFirst(msg, env, f) ==
    IF msg.from = msg.to THEN Attempt(f.ct, Nil, errSelfSend)
    ELSE IF IsActorNotFoundError(f.err) THEN Attempt(f.ct, Nil, errAccountNotFound)
    ELSE IF f.err # NilErr
    THEN Attempt(f.ct, Nil, FaultErrorWrap(f.err, "failed to get From actor"))
    ELSE ReceiverOn(msg, env, f,
                    CachedGetOrCreateActor(f.ct, msg.to, EmptyActor, env.fail = "getTo"))

\* From the sender's lookup f on
SenderOn(msg, env, f) ==
    IF IsActorNotFoundError(f.err) THEN Attempt(f.ct, Nil, errAccountNotFound)
    ELSE IF f.err # NilErr
    THEN Attempt(f.ct, Nil, FaultErrorWrap(f.err, "failed to get From actor"))
    ELSE IF msg.from = msg.to THEN Attempt(f.ct, Nil, errSelfSend)
    ELSE ReceiverOn(msg, env, f,
                    CachedGetOrCreateActor(f.ct, msg.to, EmptyActor, env.fail = "getTo"))

attemptApplyMessage(ct, msg, env) ==
    SenderOn(msg, env, CachedGetActor(ct, msg.from, env.fail = "getFrom"))

----------------------------------------------------------------------------
(* ApplyMessage *)

Applied(t, res, err) == [st |-> t, res |-> res, err |-> err]

\* Faulty variant: insufficient funds is rejected as a permanent failure
Classify_InsufficientFundsRejected(err) ==
    IF err = errAccountNotFound \/ err = errNonceTooHigh THEN "temporary"
    ELSE IF err = errSelfSend \/ err = errNonceTooLow \/ err = errNonAccountActor
            \/ err = ErrCannotTransferNegativeValue \/ err = ErrInsufficientBalance
    THEN "permanent"
    ELSE "applied"

\* Faulty variant: the two nonce causes are classified the other way round
Classify_NonceSwapped(err) ==
    IF err = errAccountNotFound \/ err = errNonceTooLow THEN "temporary"
    ELSE IF err = errSelfSend \/ err = errNonceTooHigh \/ err = errNonAccountActor
            \/ err = ErrCannotTransferNegativeValue THEN "permanent"
    ELSE "applied"

\* The classification of the attempt's error ("Reject invalid state transitions")
Classify(err) ==
    IF err = errAccountNotFound \/ err = errNonceTooHigh THEN "temporary"
    ELSE IF err = errSelfSend \/ err = errNonceTooLow \/ err = errNonAccountActor
            \/ err = ErrCannotTransferNegativeValue THEN "permanent"
    ELSE "applied"

\* Faulty variant: the sender is written back without the increment
IncNonce_Forgotten(t, msg, r, executionError, env) ==
    LET g == TreeGetActor(t, msg.from, env.fail = "reGet")
    IN  IF g.err # NilErr
        THEN Applied(t, Nil, FaultErrorWrap(g.err, "couldn't load from actor"))
        ELSE IF env.fail = "set"
        THEN Applied(t, Nil,
                     FaultErrorWrap(ErrStorage, "could not set from actor after inc nonce"))
        ELSE Applied(TreeSetActor(t, msg.from, g.actor[1]),
                     Some([Receipt |-> r, ExecutionError |-> executionError]),
                     NilErr)

\* "At this point we consider the message successfully applied so inc the nonce."
IncNonce(t, msg, r, executionError, env) ==
    LET g == TreeGetActor(t, msg.from, env.fail = "reGet")
    IN  IF g.err # NilErr
        THEN Applied(t, Nil, FaultErrorWrap(g.err, "couldn't load from actor"))
        ELSE IF env.fail = "set"
        THEN Applied(t, Nil,
                     FaultErrorWrap(ErrStorage, "could not set from actor after inc nonce"))
        ELSE Applied(TreeSetActor(t, msg.from, [g.actor[1] EXCEPT !.nonce = @ + 1]),
                     Some([Receipt |-> r, ExecutionError |-> executionError]),
                     NilErr)

\* Faulty variant: the nonce is incremented before the message is rejected
RejectOrApply_BumpFirst(t, msg, r, err, env) ==
    LET bumped == IncNonce(t, msg, r, err, env)
    IN  IF Classify(err) = "temporary"
        THEN Applied(bumped.st, Nil, ApplyErrorTemporaryWrapf(err))
        ELSE IF Classify(err) = "permanent"
        THEN Applied(bumped.st, Nil, ApplyErrorPermanentWrapf(err))
        ELSE bumped

\* Faulty variant: a permanent failure returns the bare revert error
RejectOrApply_Unwrapped(t, msg, r, err, env) ==
    IF Classify(err) = "temporary" THEN Applied(t, Nil, ApplyErrorTemporaryWrapf(err))
    ELSE IF Classify(err) = "permanent" THEN Applied(t, Nil, err)
    ELSE IncNonce(t, msg, r, err, env)

\* From the classification to the return
RejectOrApply(t, msg, r, err, env) ==
    IF Classify(err) = "temporary" THEN Applied(t, Nil, ApplyErrorTemporaryWrapf(err))
    ELSE IF Classify(err) = "permanent" THEN Applied(t, Nil, ApplyErrorPermanentWrapf(err))
    ELSE IncNonce(t, msg, r, err, env)

\* Faulty variant: the overlay is committed on a revert error as well
Settle_CommitOnRevert(t, msg, env, a) ==
    LET c == CachedCommit(a.ct, t, env.fail = "commit")
    IN  IF a.err = NilErr \/ ShouldRevert(a.err)
        THEN IF c.err # NilErr
             THEN Applied(c.st, Nil, FaultErrorWrap(c.err, "could not commit state tree"))
             ELSE RejectOrApply(c.st, msg, a.receipt, a.err, env)
        ELSE IF IsFault(a.err) THEN Applied(t, Nil, a.err)
        ELSE Applied(t, Nil, NewFaultError("someone is a bad programmer"))

\* Faulty variant: the nonce step works on the tree from before the commit
Settle_CommitDropped(t, msg, env, a) ==
    LET c == CachedCommit(a.ct, t, env.fail = "commit")
    IN  IF a.err = NilErr
        THEN IF c.err # NilErr
             THEN Applied(c.st, Nil, FaultErrorWrap(c.err, "could not commit state tree"))
             ELSE RejectOrApply(t, msg, a.receipt, a.err, env)
        ELSE IF IsFault(a.err) THEN Applied(t, Nil, a.err)
        ELSE IF ~ShouldRevert(a.err)
        THEN Applied(t, Nil, NewFaultError("someone is a bad programmer"))
        ELSE RejectOrApply(t, msg, a.receipt, a.err, env)

\* Faulty variant: an error that is neither fault nor revert is taken for an
\* execution error
Settle_OtherErrorApplied(t, msg, env, a) ==
    LET c == CachedCommit(a.ct, t, env.fail = "commit")
    IN  IF a.err = NilErr
        THEN IF c.err # NilErr
             THEN Applied(c.st, Nil, FaultErrorWrap(c.err, "could not commit state tree"))
             ELSE RejectOrApply(c.st, msg, a.receipt, a.err, env)
        ELSE IF IsFault(a.err) THEN Applied(t, Nil, a.err)
        ELSE RejectOrApply(t, msg, a.receipt, a.err, env)

\* What ApplyMessage does with what the attempt step returned (a)
Settle(t, msg, env, a) ==
    LET c == CachedCommit(a.ct, t, env.fail = "commit")
    IN  IF a.err = NilErr
        THEN IF c.err # NilErr
             THEN Applied(c.st, Nil, FaultErrorWrap(c.err, "could not commit state tree"))
             ELSE RejectOrApply(c.st, msg, a.receipt, a.err, env)
        ELSE IF IsFault(a.err) THEN Applied(t, Nil, a.err)
        ELSE IF ~ShouldRevert(a.err)
        THEN Applied(t, Nil, NewFaultError("someone is a bad programmer"))
        ELSE RejectOrApply(t, msg, a.receipt, a.err, env)

ApplyMessage(t, msg, env) ==
    Settle(t, msg, env, attemptApplyMessage(NewCachedStateTree(t), msg, env))

----------------------------------------------------------------------------
(* ApplyMessages *)

\* var emptyRet, ret ApplyMessagesResponse
emptyRet == [Results |-> <<>>, PermanentFailures |-> <<>>, TemporaryFailures |-> <<>>,
             SuccessfulMessages |-> <<>>, PermanentErrors |-> <<>>, TemporaryErrors |-> <<>>]

\* Which case of the switch on ApplyMessage's error is taken
SwitchCase(err) ==
    IF IsFault(err) THEN "fault"
    ELSE IF IsApplyErrorPermanent(err) THEN "permanent"
    ELSE IF IsApplyErrorTemporary(err) THEN "temporary"
    ELSE IF err # NilErr THEN "panic"
    ELSE "default"

\* Faulty variant: temporary failures are filed with the permanent ones
Record_TemporaryMisfiled(ret, smsg, r, err) ==
    IF SwitchCase(err) = "permanent" \/ SwitchCase(err) = "temporary"
    THEN [ret EXCEPT !.PermanentFailures = Append(@, smsg),
                     !.PermanentErrors = Append(@, err)]
    ELSE [ret EXCEPT !.SuccessfulMessages = Append(@, smsg),
                     !.Results = Append(@, r[1])]

\* The appends of the permanent, temporary and default cases
Record(ret, smsg, r, err) ==
    IF SwitchCase(err) = "permanent"
    THEN [ret EXCEPT !.PermanentFailures = Append(@, smsg),
                     !.PermanentErrors = Append(@, err)]
    ELSE IF SwitchCase(err) = "temporary"
    THEN [ret EXCEPT !.TemporaryFailures = Append(@, smsg),
                     !.TemporaryErrors = Append(@, err)]
    ELSE [ret EXCEPT !.SuccessfulMessages = Append(@, smsg),
                     !.Results = Append(@, r[1])]

\* Faulty variant: a fault returns the response gathered so far
Bail_Partial(t, ret, err, calls) ==
    [st |-> t, ret |-> ret, err |-> err, panic |-> FALSE, calls |-> calls]

\* case errors.IsFault(err): return emptyRet, err
Bail(t, ret, err, calls) ==
    [st |-> t, ret |-> emptyRet, err |-> err, panic |-> FALSE, calls |-> calls]

\* The loop over messages, from message i on. calls lists what each
\* ApplyMessage call made so far returned; out is what the call for message i
\* returned.
RECURSIVE ApplyMessagesFrom(_, _, _, _, _, _)
Switch(i, messages, envs, ret, calls, out) ==
    IF SwitchCase(out.err) = "fault"
    THEN Bail(out.st, ret, out.err, Append(calls, [res |-> out.res, err |-> out.err]))
    ELSE IF SwitchCase(out.err) = "panic"
    THEN [st |-> out.st, ret |-> emptyRet, err |-> out.err, panic |-> TRUE,
          calls |-> Append(calls, [res |-> out.res, err |-> out.err])]
    ELSE ApplyMessagesFrom(i + 1, messages, envs, out.st,
                           Record(ret, messages[i], out.res, out.err),
                           Append(calls, [res |-> out.res, err |-> out.err]))

ApplyMessagesFrom(i, messages, envs, t, ret, calls) ==
    IF i > Len(messages)
    THEN [st |-> t, ret |-> ret, err |-> NilErr, panic |-> FALSE, calls |-> calls]
    ELSE Switch(i, messages, envs, ret, calls, ApplyMessage(t, messages[i], envs[i]))

\* Faulty variant: the messages are applied last to first
ApplyMessages_Reversed(messages, envs, t) ==
    LET n == Len(messages)
    IN  ApplyMessagesFrom(1, [i \in 1..n |-> messages[n + 1 - i]],
                          [i \in 1..n |-> envs[n + 1 - i]], t, emptyRet, <<>>)

ApplyMessages(messages, envs, t) == ApplyMessagesFrom(1, messages, envs, t, emptyRet, <<>>)

----------------------------------------------------------------------------
(* ProcessBlock *)

\* var emptyResults []*ApplicationResult
emptyResults == <<>>

Processed(t, results, err, panic) ==
    [st |-> t, results |-> results, err |-> err, panic |-> panic]

\* Faulty variant: a block with temporary failures only is accepted
SelectError_TemporaryTolerated(am) ==
    IF am.panic THEN Processed(am.st, emptyResults, am.err, TRUE)
    ELSE IF am.err # NilErr THEN Processed(am.st, emptyResults, am.err, FALSE)
    ELSE IF Len(am.ret.PermanentErrors) > 0
    THEN Processed(am.st, emptyResults, am.ret.PermanentErrors[1], FALSE)
    ELSE Processed(am.st, am.ret.Results, NilErr, FALSE)

\* Faulty variant: the temporary failures are looked at before the permanent
SelectError_TemporaryFirst(am) ==
    IF am.panic THEN Processed(am.st, emptyResults, am.err, TRUE)
    ELSE IF am.err # NilErr THEN Processed(am.st, emptyResults, am.err, FALSE)
    ELSE IF Len(am.ret.TemporaryErrors) > 0
    THEN Processed(am.st, emptyResults, am.ret.TemporaryErrors[1], FALSE)
    ELSE IF Len(am.ret.PermanentErrors) > 0
    THEN Processed(am.st, emptyResults, am.ret.PermanentErrors[1], FALSE)
    ELSE Processed(am.st, am.ret.Results, NilErr, FALSE)

\* What ProcessBlock returns, am being what ApplyMessages returned
SelectError(am) ==
    IF am.panic THEN Processed(am.st, emptyResults, am.err, TRUE)
    ELSE IF am.err # NilErr THEN Processed(am.st, emptyResults, am.err, FALSE)
    ELSE IF Len(am.ret.PermanentErrors) > 0
    THEN Processed(am.st, emptyResults, am.ret.PermanentErrors[1], FALSE)
    ELSE IF Len(am.ret.TemporaryErrors) > 0
    THEN Processed(am.st, emptyResults, am.ret.TemporaryErrors[1], FALSE)
    ELSE Processed(am.st, am.ret.Results, NilErr, FALSE)

\* types.Block, as far as the engine reads it; the height goes to the VM only
Block(ticket, messages) == [Ticket |-> ticket, Messages |-> messages]

\* Faulty variant: a rejected block leaves the base tree as it was
ProcessBlock_RolledBack(blk, envs, t) ==
    LET out == SelectError(ApplyMessages(blk.Messages, envs, t))
    IN  IF out.err # NilErr THEN Processed(t, out.results, out.err, out.panic) ELSE out

ProcessBlock(blk, envs, t) == SelectError(ApplyMessages(blk.Messages, envs, t))

----------------------------------------------------------------------------
(* ProcessTipSet *)

\* The tickets of sibling blocks; SortBlocks orders blocks by ticket
Tickets == {1, 2}

\* msg.Cid(): the content identifier of a message, one per message content
Cid(smsg) == <<smsg.from, smsg.to, smsg.nonce, smsg.value>>

\* The environment of one ProcessTipSet call: the message, if any, whose VM
\* invocation faults, and the message, if any, whose Cid() returns an error
CidFails(smsg, tenv) == tenv.badCid = Some(smsg)
EnvFor(smsg, tenv) == [vm |-> IF tenv.faulty = Some(smsg) THEN "fault" ELSE "ok", fail |-> "none"]
EnvsFor(msgs, tenv) == [j \in 1..Len(msgs) |-> EnvFor(msgs[j], tenv)]

\* var res, emptyRes ProcessTipSetResponse
emptyRes == [Results |-> <<>>, Successes |-> {}, Failures |-> {}]

\* What ProcessTipSet returns and leaves: passed lists the messages it handed
\* to ApplyMessage, calls what each of those calls returned
TipSetProcessed(t, res, err, panic, passed, calls) ==
    [st |-> t, res |-> res, err |-> err, panic |-> panic, passed |-> passed, calls |-> calls]

\* types.SortBlocks: the blocks in ascending ticket order
RECURSIVE SortBlocks(_)
SortBlocks(blks) ==
    IF Len(blks) = 0 THEN <<>>
    ELSE LET least == CHOOSE i \in 1..Len(blks) :
                         \A j \in 1..Len(blks) : blks[i].Ticket <= blks[j].Ticket
             rest == SubSeq(blks, 1, least - 1) \o SubSeq(blks, least + 1, Len(blks))
         IN  <<blks[least]>> \o SortBlocks(rest)

\* Faulty variant: the blocks are taken in the order the tipset holds them
SortedTips_Unsorted(ts) == ts

\* tips := ts.ToSlice(); types.SortBlocks(tips)
SortedTips(ts) == SortBlocks(ts)

\* Faulty variant: the filter is consulted but never filled
RECURSIVE FilterFrom_NotRecorded(_, _, _, _, _)
FilterFrom_NotRecorded(j, messages, msgFilter, msgs, tenv) ==
    IF j > Len(messages) THEN [msgs |-> msgs, msgFilter |-> msgFilter, err |-> NilErr]
    ELSE IF CidFails(messages[j], tenv)
    THEN [msgs |-> msgs, msgFilter |-> msgFilter,
          err |-> FaultErrorWrap(ErrStorage, "error getting message cid")]
    ELSE IF Cid(messages[j]) \in msgFilter
    THEN FilterFrom_NotRecorded(j + 1, messages, msgFilter, msgs, tenv)
    ELSE FilterFrom_NotRecorded(j + 1, messages, msgFilter, Append(msgs, messages[j]), tenv)

\* "filter out duplicates within TipSet": the loop over a block's messages,
\* from message j on
RECURSIVE FilterFrom(_, _, _, _, _)
FilterFrom(j, messages, msgFilter, msgs, tenv) ==
    IF j > Len(messages) THEN [msgs |-> msgs, msgFilter |-> msgFilter, err |-> NilErr]
    ELSE IF CidFails(messages[j], tenv)
    THEN [msgs |-> msgs, msgFilter |-> msgFilter,
          err |-> FaultErrorWrap(ErrStorage, "error getting message cid")]
    ELSE IF Cid(messages[j]) \in msgFilter
    THEN FilterFrom(j + 1, messages, msgFilter, msgs, tenv)
    ELSE FilterFrom(j + 1, messages, msgFilter \cup {Cid(messages[j])},
                    Append(msgs, messages[j]), tenv)

\* The identifiers of a message list, as added to a SortedCidSet
Cids(msgs) == {Cid(msgs[j]) : j \in 1..Len(msgs)}
AnyCidFails(msgs, tenv) == \E j \in 1..Len(msgs) : CidFails(msgs[j], tenv)

\* The three loops that add the identifiers of what ApplyMessages returned
\* (amRet) to the response
Collect(res, amRet, tenv) ==
    IF \/ AnyCidFails(amRet.SuccessfulMessages, tenv)
       \/ AnyCidFails(amRet.PermanentFailures, tenv)
       \/ AnyCidFails(amRet.TemporaryFailures, tenv)
    THEN [res |-> emptyRes, err |-> FaultErrorWrap(ErrStorage, "error getting message cid")]
    ELSE [res |-> [Results |-> res.Results \o amRet.Results,
                   Successes |-> res.Successes \cup Cids(amRet.SuccessfulMessages),
                   Failures |-> res.Failures \cup Cids(amRet.PermanentFailures)
                                   \cup Cids(amRet.TemporaryFailures)],
          err |-> NilErr]

\* Faulty variant: a block's first permanent or temporary error is returned,
\* as ProcessBlock does
RECURSIVE BlocksFrom(_, _, _, _, _, _, _, _)
AfterCollect_Strict(i, tips, tenv, msgFilter, passed, calls, am, c) ==
    IF c.err # NilErr
    THEN TipSetProcessed(am.st, emptyRes, c.err, FALSE, passed, calls)
    ELSE IF Len(am.ret.PermanentErrors) > 0
    THEN TipSetProcessed(am.st, emptyRes, am.ret.PermanentErrors[1], FALSE, passed, calls)
    ELSE IF Len(am.ret.TemporaryErrors) > 0
    THEN TipSetProcessed(am.st, emptyRes, am.ret.TemporaryErrors[1], FALSE, passed, calls)
    ELSE BlocksFrom(i + 1, tips, tenv, am.st, msgFilter, c.res, passed, calls)

\* The end of the loop body for block i, c being what the identifier loops gave
AfterCollect(i, tips, tenv, msgFilter, passed, calls, am, c) ==
    IF c.err # NilErr
    THEN TipSetProcessed(am.st, emptyRes, c.err, FALSE, passed, calls)
    ELSE BlocksFrom(i + 1, tips, tenv, am.st, msgFilter, c.res, passed, calls)

\* Faulty variant: the identifiers of the messages that failed are taken out
\* of the filter again, so that a later block may try them once more
AfterApply_RetryFailed(i, tips, tenv, msgFilter, res, passed, calls, msgs, am) ==
    IF am.panic
    THEN TipSetProcessed(am.st, emptyRes, am.err, TRUE,
                         passed \o SubSeq(msgs, 1, Len(am.calls)), calls \o am.calls)
    ELSE IF am.err # NilErr
    THEN TipSetProcessed(am.st, emptyRes, am.err, FALSE,
                         passed \o SubSeq(msgs, 1, Len(am.calls)), calls \o am.calls)
    ELSE AfterCollect(i, tips, tenv,
                      msgFilter \ (Cids(am.ret.PermanentFailures)
                                      \cup Cids(am.ret.TemporaryFailures)),
                      passed \o msgs, calls \o am.calls, am, Collect(res, am.ret, tenv))

\* The loop body for block i after ApplyMessages returned am for the block's
\* message sub-sequence msgs
AfterApply(i, tips, tenv, msgFilter, res, passed, calls, msgs, am) ==
    IF am.panic
    THEN TipSetProcessed(am.st, emptyRes, am.err, TRUE,
                         passed \o SubSeq(msgs, 1, Len(am.calls)), calls \o am.calls)
    ELSE IF am.err # NilErr
    THEN TipSetProcessed(am.st, emptyRes, am.err, FALSE,
                         passed \o SubSeq(msgs, 1, Len(am.calls)), calls \o am.calls)
    ELSE AfterCollect(i, tips, tenv, msgFilter, passed \o msgs, calls \o am.calls, am,
                      Collect(res, am.ret, tenv))

\* The loop body for block i after the filter loop returned f
AfterFilter(i, tips, tenv, t, res, passed, calls, f) ==
    IF f.err # NilErr
    THEN TipSetProcessed(t, emptyRes, f.err, FALSE, passed, calls)
    ELSE AfterApply(i, tips, tenv, f.msgFilter, res, passed, calls, f.msgs,
                    ApplyMessages(f.msgs, EnvsFor(f.msgs, tenv), t))

\* The loop over the sorted blocks, from block i on
BlocksFrom(i, tips, tenv, t, msgFilter, res, passed, calls) ==
    IF i > Len(tips) THEN TipSetProcessed(t, res, NilErr, FALSE, passed, calls)
    ELSE AfterFilter(i, tips, tenv, t, res, passed, calls,
                     FilterFrom(1, tips[i].Messages, msgFilter, <<>>, tenv))

\* ts is the tipset as ToSlice returns its blocks
ProcessTipSet(ts, tenv, t) ==
    IF Len(ts) = 0
    THEN TipSetProcessed(t, emptyRes, FaultErrorWrap(ErrStorage, "processing empty tipset"),
                         FALSE, <<>>, <<>>)
    ELSE BlocksFrom(1, SortedTips(ts), tenv, t, {}, emptyRes, <<>>, <<>>)

----------------------------------------------------------------------------
(* CallQueryMethod *)

QueryMethods == {"getBalance", "getOwner"}

\* types.NewQueryMessage: a message without nonce and value
NewQueryMessage(from, to, method) == [from |-> from, to |-> to, method |-> method]

\* vm.Send for a query message: no value is transferred; the method runs over
\* the overlay, and what it writes (here: the target's balance, spent) it
\* writes to the overlay
QuerySend(ct, msg, toActor, outcome) ==
    LET written == CachedWrite(ct, msg.to, [toActor EXCEPT !.balance = 0])
    IN  IF outcome = "ok"
        THEN [ct |-> written, ret |-> <<msg.method>>, exitCode |-> 0, err |-> NilErr]
        ELSE IF outcome = "revert"
        THEN [ct |-> written, ret |-> <<>>, exitCode |-> 1,
              err |-> NewRevertError("actor method reverted")]
        ELSE [ct |-> written, ret |-> <<>>, exitCode |-> 1,
              err |-> NewFaultError("vm storage corrupted")]

\* What CallQueryMethod returns and leaves: overlay is the cached tree the VM
\* ran over, if it ran
Queried(t, ret, retCode, err, overlay) ==
    [st |-> t, ret |-> ret, retCode |-> retCode, err |-> err, overlay |-> overlay]

\* Faulty variant: the overlay is committed once the VM has returned
Answer_Committed(t, s) ==
    Queried(CachedCommit(s.ct, t, FALSE).st, s.ret, s.exitCode, s.err, Some(s.ct))

\* return ret, retCode, err: s is what vm.Send returned
Answer(t, s) == Queried(t, s.ret, s.exitCode, s.err, Some(s.ct))

\* Faulty variant: an absent target is queried as an empty actor
QueryOn_AbsentTargetRuns(t, to, method, from, env, g) ==
    IF g.err # NilErr /\ ~IsActorNotFoundError(g.err)
    THEN Queried(t, <<>>, 1, ApplyErrorPermanentWrapf(g.err), Nil)
    ELSE Answer(t, QuerySend(NewCachedStateTree(t), NewQueryMessage(from, to, method),
                             IF g.err = NilErr THEN g.actor[1] ELSE EmptyActor, env.vm))

\* From the target's lookup g on
QueryOn(t, to, method, from, env, g) ==
    IF g.err # NilErr
    THEN Queried(t, <<>>, 1, ApplyErrorPermanentWrapf(g.err), Nil)
    ELSE Answer(t, QuerySend(NewCachedStateTree(t), NewQueryMessage(from, to, method),
                             g.actor[1], env.vm))

CallQueryMethod(t, to, method, from, env) ==
    QueryOn(t, to, method, from, env, TreeGetActor(t, to, env.fail = "getTo"))

----------------------------------------------------------------------------
(* The state machine: a caller invokes the engine on the base tree, one     *)
(* call at a time, and takes the response before the next call.             *)

InitTree == [a \in {"a1", "a3"} |->
                IF a = "a1" THEN Actor("nil", 0, MaxValue) ELSE Actor("miner", 0, 0)]

NoCall == [op |-> "none", msgs |-> <<>>, envs |-> <<>>]

Init ==
    /\ st = InitTree
    /\ pc = "idle"
    /\ call = NoCall
    /\ pre = InitTree
    /\ resp = <<>>

DoApplyMessage ==
    /\ pc = "idle"
    /\ \E msg \in Messages, env \in Envs :
          LET out == ApplyMessage(st, msg, env)
          IN  /\ st' = out.st
              /\ call' = [op |-> "ApplyMessage", msgs |-> <<msg>>, envs |-> <<env>>]
              /\ resp' = <<[res |-> out.res, err |-> out.err]>>
    /\ pre' = st
    /\ pc' = "done"

\* The message sequences handed to ApplyMessages: transfers of the whole
\* supply from a1 to a2, from a2 to a1 and from a1 to itself, each with what
\* the VM does with it.
BatchMessages == {m \in Messages : /\ m.value = MaxValue
                                    /\ <<m.from, m.to>> \in {<<"a1", "a2">>, <<"a2", "a1">>,
                                                              <<"a1", "a1">>}}
BatchEnvs == {[vm |-> o, fail |-> "none"] : o \in {"ok", "fault"}}

SeqsUpTo(S, n) == UNION {[1..k -> S] : k \in 0..n}

DoApplyMessages ==
    /\ pc = "idle"
    /\ \E messages \in SeqsUpTo(BatchMessages, MaxBatch) :
          \E envs \in [1..Len(messages) -> BatchEnvs] :
             LET out == ApplyMessages(messages, envs, st)
             IN  /\ st' = out.st
                 /\ call' = [op |-> "ApplyMessages", msgs |-> messages, envs |-> envs]
                 /\ resp' = <<[ret |-> out.ret, err |-> out.err, panic |-> out.panic,
                               calls |-> out.calls]>>
    /\ pre' = st
    /\ pc' = "done"

\* The caller has taken the response; the engine is ready for the next call.
Return ==
    /\ pc = "done"
    /\ pc' = "idle"
    /\ call' = NoCall
    /\ pre' = st
    /\ resp' = <<>>
    /\ UNCHANGED st

Next == DoApplyMessage \/ Return

Spec == Init /\ [][Next]_vars

NextBatch == DoApplyMessages \/ Return

SpecBatch == Init /\ [][NextBatch]_vars

DoProcessBlock ==
    /\ pc = "idle"
    /\ \E messages \in SeqsUpTo(BatchMessages, MaxBatch) :
          \E envs \in [1..Len(messages) -> BatchEnvs] :
             LET out == ProcessBlock(Block(1, messages), envs, st)
             IN  /\ st' = out.st
                 /\ call' = [op |-> "ProcessBlock", msgs |-> messages, envs |-> envs]
                 /\ resp' = <<[results |-> out.results, err |-> out.err,
                               panic |-> out.panic]>>
    /\ pre' = st
    /\ pc' = "done"

NextBlock == DoProcessBlock \/ Return

SpecBlock == Init /\ [][NextBlock]_vars

\* The messages of the blocks handed to ProcessTipSet: the two first transfers
\* of a1 to a2 and a transfer of a1 to itself
TipSetMessages == {m \in BatchMessages :
                      <<m.from, m.to, m.nonce>> \in {<<"a1", "a2", 0>>, <<"a1", "a2", 1>>,
                                                     <<"a1", "a1", 0>>}}

TipBlocks == {Block(k, ms) : k \in Tickets, ms \in SeqsUpTo(TipSetMessages, MaxBatch)}

\* A tipset as ToSlice returns it: sibling blocks in any order, no two with
\* the same ticket; the empty tipset has no height
TipSets == {ts \in SeqsUpTo(TipBlocks, Cardinality(Tickets)) :
               \A i, j \in 1..Len(ts) : i # j => ts[i].Ticket # ts[j].Ticket}

TipSetEnvs == {[faulty |-> Nil, badCid |-> Nil]}
              \cup {[faulty |-> Some(m), badCid |-> Nil] : m \in TipSetMessages}
              \cup {[faulty |-> Nil, badCid |-> Some(m)] : m \in TipSetMessages}

DoProcessTipSet ==
    /\ pc = "idle"
    /\ \E ts \in TipSets, tenv \in TipSetEnvs :
          LET out == ProcessTipSet(ts, tenv, st)
          IN  /\ st' = out.st
              /\ call' = [op |-> "ProcessTipSet", msgs |-> ts, envs |-> <<tenv>>]
              /\ resp' = <<[res |-> out.res, err |-> out.err, panic |-> out.panic,
                            passed |-> out.passed, calls |-> out.calls]>>
    /\ pre' = st
    /\ pc' = "done"

NextTipSet == DoProcessTipSet \/ Return

SpecTipSet == Init /\ [][NextTipSet]_vars

\* Message sequences of one sender: transfers of nothing or of the whole
\* supply from a1 to a2, each with a VM that succeeds or reverts
OneSenderMessages == {m \in Messages : /\ m.from = "a1" /\ m.to = "a2"
                                        /\ m.value \in {0, MaxValue}}
OneSenderEnvs == {[vm |-> o, fail |-> "none"] : o \in {"ok", "revert"}}

DoApplyMessagesOfOneSender ==
    /\ pc = "idle"
    /\ \E messages \in SeqsUpTo(OneSenderMessages, MaxBatch) :
          \E envs \in [1..Len(messages) -> OneSenderEnvs] :
             LET out == ApplyMessages(messages, envs, st)
             IN  /\ st' = out.st
                 /\ call' = [op |-> "ApplyMessages", msgs |-> messages, envs |-> envs]
                 /\ resp' = <<[ret |-> out.ret, err |-> out.err, panic |-> out.panic,
                               calls |-> out.calls]>>
    /\ pre' = st
    /\ pc' = "done"

NextOneSender == DoApplyMessagesOfOneSender \/ Return

SpecOneSender == Init /\ [][NextOneSender]_vars

QueryEnvs == {[vm |-> o, fail |-> "none"] : o \in {"ok", "revert", "fault"}}
             \cup {[vm |-> "ok", fail |-> "getTo"]}

DoCallQueryMethod ==
    /\ pc = "idle"
    /\ \E to \in Addrs, from \in Addrs, method \in QueryMethods, env \in QueryEnvs :
          LET out == CallQueryMethod(st, to, method, from, env)
          IN  /\ st' = out.st
              /\ call' = [op |-> "CallQueryMethod",
                          msgs |-> <<NewQueryMessage(from, to, method)>>, envs |-> <<env>>]
              /\ resp' = <<[ret |-> out.ret, retCode |-> out.retCode, err |-> out.err,
                            overlay |-> out.overlay]>>
    /\ pre' = st
    /\ pc' = "done"

\* Queries between ApplyMessage calls, which bring the tree into every state
NextQuery == DoCallQueryMethod \/ DoApplyMessage \/ Return

SpecQuery == Init /\ [][NextQuery]_vars

\* Message sequences applied under a caller's ctx: with each message, whether
\* ctx is live or cancelled when ApplyMessage is called for it (a cancelled
\* ctx stays cancelled), and whether the state tree returns an error to the
\* sender's lookup, as a tree that watches ctx does once ctx is cancelled
ContextEnvs == {[vm |-> "ok", fail |-> f, ctx |-> c] :
                   f \in {"none", "getFrom"}, c \in {"live", "cancelled"}}

DoApplyMessagesWithContext ==
    /\ pc = "idle"
    /\ \E messages \in SeqsUpTo(OneSenderMessages, MaxBatch) :
          \E envs \in [1..Len(messages) -> ContextEnvs] :
             /\ \A i, j \in 1..Len(messages) :
                   i < j /\ envs[i].ctx = "cancelled" => envs[j].ctx = "cancelled"
             /\ LET out == ApplyMessages(messages, envs, st)
                IN  /\ st' = out.st
                    /\ call' = [op |-> "ApplyMessages", msgs |-> messages, envs |-> envs]
                    /\ resp' = <<[ret |-> out.ret, err |-> out.err, panic |-> out.panic,
                                  calls |-> out.calls]>>
    /\ pre' = st
    /\ pc' = "done"

NextContext == DoApplyMessagesWithContext \/ Return

SpecContext == Init /\ [][NextContext]_vars

----------------------------------------------------------------------------
(* What a returned ApplyMessage call shows *)

AfterApplyMessage == pc = "done" /\ call.op = "ApplyMessage"
msg1 == call.msgs[1]
env1 == call.envs[1]
ret1 == resp[1]

Succeeded == ret1.err = NilErr /\ ret1.res # Nil /\ ret1.res[1].ExecutionError = NilErr
ExecutionErrored == ret1.err = NilErr /\ ret1.res # Nil /\ ret1.res[1].ExecutionError # NilErr
WasApplied == Succeeded \/ ExecutionErrored
Rejected == IsApplyErrorPermanent(ret1.err) \/ IsApplyErrorTemporary(ret1.err)

\* The faults ApplyMessage raises itself after the attempt step: at Commit and
\* in the nonce write-back
LateFaultCauses == {"could not commit state tree", "couldn't load from actor",
                    "could not set from actor after inc nonce"}
EarlyFault == IsFault(ret1.err) /\ ret1.err.cause \notin LateFaultCauses

\* What the attempt step of the returned call returned
attempted == attemptApplyMessage(NewCachedStateTree(pre), msg1, env1)

\* Two trees that differ at most in the record of address a
SameExceptAt(t1, t2, a) ==
    /\ DOMAIN t1 = DOMAIN t2
    /\ \A x \in DOMAIN t1 : x # a => t1[x] = t2[x]

----------------------------------------------------------------------------
(* C1. Nonce monotonicity: over any sequence of ApplyMessage calls no        *)
(* actor's nonce decreases (and no actor disappears); a call that applies    *)
(* its message (success or execution error) raises the sender's nonce by     *)
(* exactly one, and a call that returns a permanent or temporary apply error *)
(* leaves the sender's nonce (and the sender's absence) as it was.           *)
C1_NonceMonotonicity ==
    AfterApplyMessage =>
        /\ \A a \in DOMAIN pre : a \in DOMAIN st /\ st[a].nonce >= pre[a].nonce
        /\ WasApplied =>
              /\ msg1.from \in DOMAIN pre
              /\ st[msg1.from].nonce = pre[msg1.from].nonce + 1
        /\ Rejected =>
              IF msg1.from \in DOMAIN pre
              THEN st[msg1.from].nonce = pre[msg1.from].nonce
              ELSE msg1.from \notin DOMAIN st

\* an execution-error application that raised the sender's nonce
C1_Witness ==
    /\ AfterApplyMessage
    /\ ExecutionErrored
    /\ st[msg1.from].nonce = pre[msg1.from].nonce + 1

(* C2 as claimed. After any permanent or temporary apply error and after any *)
(* fault, the base tree equals the tree before the call.                     *)
C2_AtomicityOnAnyFailure ==
    AfterApplyMessage /\ (Rejected \/ IsFault(ret1.err)) => st = pre

(* C2, amended. After a permanent or temporary apply error, and after a      *)
(* fault that comes out of the attempt step (sender or receiver lookup,      *)
(* upgrade, VM fault, an error that is neither fault nor revert), the base   *)
(* tree equals the tree before the call.                                     *)
C2_AtomicityOnFailure ==
    AfterApplyMessage /\ (Rejected \/ EarlyFault) => st = pre

\* a rejected message whose overlay held a new receiver and an upgraded sender
C2_Witness ==
    /\ AfterApplyMessage
    /\ Rejected
    /\ msg1.from \in DOMAIN pre
    /\ msg1.from # msg1.to
    /\ msg1.to \notin DOMAIN pre
    /\ pre[msg1.from].code = "nil"
    /\ st = pre

(* C3. Atomicity on execution error: after an applied result that carries an *)
(* execution error the base tree differs from the tree before the call only  *)
(* in the sender's nonce, which is one higher; what the VM wrote through the *)
(* overlay (balances, the receiver, the sender's code) is discarded.         *)
C3_AtomicityOnExecutionError ==
    AfterApplyMessage /\ ExecutionErrored =>
        /\ SameExceptAt(st, pre, msg1.from)
        /\ st[msg1.from] = [pre[msg1.from] EXCEPT !.nonce = @ + 1]

\* the VM moved a positive value to a new receiver from an upgraded sender,
\* then its method reverted
C3_Witness ==
    /\ AfterApplyMessage
    /\ ExecutionErrored
    /\ env1.vm = "revert"
    /\ msg1.value > 0
    /\ pre[msg1.from].balance >= msg1.value
    /\ pre[msg1.from].code = "nil"
    /\ msg1.to \notin DOMAIN pre

(* C4 as claimed. For a receiver absent before the call, the receiver is on  *)
(* the base tree after the call iff the message was applied (success or      *)
(* execution error).                                                         *)
C4_ReceiverIffApplied ==
    AfterApplyMessage /\ msg1.to \notin DOMAIN pre =>
        (msg1.to \in DOMAIN st <=> WasApplied)

(* C4, amended. For a receiver absent before the call: after a successful    *)
(* application the receiver is on the base tree, without code and holding    *)
(* the transferred value; after an application with execution error, after a *)
(* permanent or temporary apply error and after a fault out of the attempt   *)
(* step it is still absent.                                                  *)
C4_NoGhostActors ==
    AfterApplyMessage /\ msg1.to \notin DOMAIN pre =>
        /\ Succeeded =>
              /\ msg1.to \in DOMAIN st
              /\ st[msg1.to] = [EmptyActor EXCEPT !.balance = msg1.value]
        /\ ExecutionErrored \/ Rejected \/ EarlyFault => msg1.to \notin DOMAIN st

\* a new receiver installed by a successful application
C4_Witness ==
    /\ AfterApplyMessage
    /\ msg1.to \notin DOMAIN pre
    /\ Succeeded
    /\ msg1.to \in DOMAIN st

(* C5. When the attempt ends in a revert error of no classified cause        *)
(* (insufficient funds included) and the nonce write-back's tree operations  *)
(* do not fail, ApplyMessage returns no error and a result whose             *)
(* ExecutionError is that revert error and whose receipt carries the VM's    *)
(* exit code; the overlay is not committed, the sender's nonce is advanced,  *)
(* and the same message applied again is rejected as nonce too low.          *)
UnclassifiedRevert ==
    /\ ShouldRevert(attempted.err)
    /\ attempted.err \notin {errAccountNotFound, errNonceTooHigh, errSelfSend,
                             errNonceTooLow, errNonAccountActor,
                             ErrCannotTransferNegativeValue}

C5_RevertIsApplied ==
    AfterApplyMessage /\ UnclassifiedRevert /\ env1.fail \notin {"reGet", "set"} =>
        /\ ret1.err = NilErr
        /\ ret1.res = Some([Receipt |-> attempted.receipt,
                            ExecutionError |-> attempted.err])
        /\ attempted.receipt # Nil
        /\ attempted.receipt[1].ExitCode # 0
        /\ SameExceptAt(st, pre, msg1.from)
        /\ st[msg1.from] = [pre[msg1.from] EXCEPT !.nonce = @ + 1]
        /\ \A o \in VMOutcomes :
              LET again == ApplyMessage(st, msg1, [vm |-> o, fail |-> "none"])
              IN  /\ again.err = ApplyErrorPermanentWrapf(errNonceTooLow)
                  /\ again.res = Nil
                  /\ again.st = st

\* insufficient funds, applied with that execution error
C5_Witness ==
    /\ AfterApplyMessage
    /\ attempted.err = ErrInsufficientBalance
    /\ ExecutionErrored
    /\ ret1.res[1].ExecutionError = ErrInsufficientBalance

(* C6. Classification of the well-known causes, each where it is the first  *)
(* check to fail and the lookups before it do not fail: a sender that is not *)
(* found and a nonce above the sender's give a temporary apply error; a      *)
(* nonce below the sender's, a send to self, a sender that is not an account *)
(* actor and a negative value give a permanent apply error. None of them     *)
(* gives a fault or an applied result.                                       *)
RejectedAs(kind, cause) == ret1.res = Nil /\ ret1.err = Err(kind, cause.cause)

C6_Classification ==
    AfterApplyMessage /\ env1.fail \notin {"getFrom", "getTo", "upgrade"} =>
        LET found == msg1.from \in DOMAIN pre
            self == msg1.from = msg1.to
            sender == pre[msg1.from]
            account == sender.code \in {"nil", "account"}
        IN  /\ ~found => RejectedAs("temporary", errAccountNotFound)
            /\ found /\ self => RejectedAs("permanent", errSelfSend)
            /\ found /\ ~self /\ ~account => RejectedAs("permanent", errNonAccountActor)
            /\ found /\ ~self /\ account /\ msg1.nonce < sender.nonce
                  => RejectedAs("permanent", errNonceTooLow)
            /\ found /\ ~self /\ account /\ msg1.nonce > sender.nonce
                  => RejectedAs("temporary", errNonceTooHigh)
            /\ found /\ ~self /\ account /\ msg1.nonce = sender.nonce /\ msg1.value < 0
                  => RejectedAs("permanent", ErrCannotTransferNegativeValue)

\* a negative value, rejected by the VM's transfer and classified permanent
C6_Witness ==
    /\ AfterApplyMessage
    /\ msg1.value < 0
    /\ attempted.err = ErrCannotTransferNegativeValue
    /\ IsApplyErrorPermanent(ret1.err)

(* C7. On VM success (and no failing tree operation) ApplyMessage returns a  *)
(* successful application; after a successful application the base tree is  *)
(* the tree before the call with every actor of the overlay written into it  *)
(* (the sender's balance lowered and the receiver's raised by the value, the *)
(* sender an account actor) and the sender's nonce one higher: the nonce     *)
(* write-back keeps the committed sender record.                             *)
C7_SuccessCommitsThenBumps ==
    AfterApplyMessage =>
        /\ attempted.err = NilErr /\ env1.fail = "none" => Succeeded
        /\ Succeeded =>
              LET from == msg1.from
                  to == msg1.to
                  overlay == attempted.ct.cache
                  preTo == IF to \in DOMAIN pre THEN pre[to] ELSE EmptyActor
              IN  /\ DOMAIN st = DOMAIN pre \cup {to}
                  /\ \A x \in DOMAIN st :
                        st[x] = IF x = from THEN [overlay[x] EXCEPT !.nonce = @ + 1]
                                ELSE IF x \in DOMAIN overlay THEN overlay[x]
                                ELSE pre[x]
                  /\ st[from] = Actor("account", pre[from].nonce + 1,
                                      pre[from].balance - msg1.value)
                  /\ st[to] = [preTo EXCEPT !.balance = @ + msg1.value]

\* a positive value moved from an upgraded sender to a new receiver
C7_Witness ==
    /\ AfterApplyMessage
    /\ Succeeded
    /\ msg1.value > 0
    /\ pre[msg1.from].code = "nil"
    /\ msg1.to \notin DOMAIN pre
    /\ st[msg1.to].balance = msg1.value

(* C8. Totality: every return of ApplyMessage is exactly one of an applied   *)
(* result with nil error, a fault, a permanent apply error and a temporary   *)
(* apply error (the last three with no result), so the switch of             *)
(* ApplyMessages never takes its panic case.                                 *)
C8_Totality ==
    AfterApplyMessage =>
        /\ Cardinality({k \in {"applied", "fault", "permanent", "temporary"} :
               \/ k = "applied" /\ ret1.err = NilErr /\ ret1.res # Nil
               \/ k = "fault" /\ IsFault(ret1.err) /\ ret1.res = Nil
               \/ k = "permanent" /\ IsApplyErrorPermanent(ret1.err) /\ ret1.res = Nil
               \/ k = "temporary" /\ IsApplyErrorTemporary(ret1.err) /\ ret1.res = Nil}) = 1
        /\ SwitchCase(ret1.err) # "panic"

\* the VM returned an error that is neither fault nor revert; a classified
\* revert is covered by every rejected message
C8_Witness ==
    /\ AfterApplyMessage
    /\ attempted.err.kind = "other"
    /\ IsFault(ret1.err)

----------------------------------------------------------------------------
(* What a returned ApplyMessages call shows *)

AfterApplyMessages == pc = "done" /\ call.op = "ApplyMessages"
batch == resp[1]

\* The indices of the calls whose error took the given case of the switch
Indices(class) ==
    LET Took(i) == SwitchCase(batch.calls[i].err) = class
    IN  SelectSeq([i \in 1..Len(batch.calls) |-> i], Took)

Picked(seq, idx) == [j \in 1..Len(idx) |-> seq[idx[j]]]

\* The base tree after the first k messages of the call, each applied by
\* ApplyMessage to the tree the one before it left
RECURSIVE TreeAfter(_)
TreeAfter(k) ==
    IF k = 0 THEN pre
    ELSE ApplyMessage(TreeAfter(k - 1), call.msgs[k], call.envs[k]).st

\* Every recorded call is ApplyMessage on the message of its position
CallsInOrder ==
    \A i \in 1..Len(batch.calls) :
        LET out == ApplyMessage(TreeAfter(i - 1), call.msgs[i], call.envs[i])
        IN  batch.calls[i] = [res |-> out.res, err |-> out.err]

(* C9. ApplyMessages partition: when ApplyMessages returns without error,    *)
(* every message occurrence is in exactly one of SuccessfulMessages,         *)
(* PermanentFailures and TemporaryFailures, each bucket in input order;      *)
(* Results[i] is the result of SuccessfulMessages[i]; PermanentErrors and    *)
(* TemporaryErrors hold the errors of PermanentFailures and                  *)
(* TemporaryFailures, one each.                                              *)
C9_Partition ==
    AfterApplyMessages /\ batch.err = NilErr =>
        LET ret == batch.ret
            res == [i \in 1..Len(batch.calls) |-> batch.calls[i].res]
            errs == [i \in 1..Len(batch.calls) |-> batch.calls[i].err]
        IN  /\ Len(batch.calls) = Len(call.msgs)
            /\ CallsInOrder
            /\ ret.SuccessfulMessages = Picked(call.msgs, Indices("default"))
            /\ ret.PermanentFailures = Picked(call.msgs, Indices("permanent"))
            /\ ret.TemporaryFailures = Picked(call.msgs, Indices("temporary"))
            /\ Len(ret.SuccessfulMessages) + Len(ret.PermanentFailures)
                  + Len(ret.TemporaryFailures) = Len(call.msgs)
            /\ Len(ret.Results) = Len(ret.SuccessfulMessages)
            /\ \A j \in 1..Len(ret.Results) :
                  Some(ret.Results[j]) = res[Indices("default")[j]]
            /\ ret.PermanentErrors = Picked(errs, Indices("permanent"))
            /\ ret.TemporaryErrors = Picked(errs, Indices("temporary"))

\* a temporary failure followed by an applied message
C9_Witness ==
    /\ AfterApplyMessages
    /\ batch.err = NilErr
    /\ Len(call.msgs) = 2
    /\ SwitchCase(batch.calls[1].err) = "temporary"
    /\ batch.ret.TemporaryFailures = <<call.msgs[1]>>
    /\ batch.ret.SuccessfulMessages = <<call.msgs[2]>>

(* C10. ApplyMessages returns an error iff some ApplyMessage call returned a *)
(* fault. It then returns that fault and the empty response, the faulting    *)
(* call is the last one made, and the base tree is the one that call left:   *)
(* no later message is applied.                                              *)
C10_FaultAborts ==
    AfterApplyMessages =>
        LET made == Len(batch.calls)
        IN  /\ CallsInOrder
            /\ batch.err # NilErr <=> \E i \in 1..made : IsFault(batch.calls[i].err)
            /\ batch.err = NilErr => made = Len(call.msgs) /\ st = TreeAfter(made)
            /\ batch.err # NilErr =>
                  /\ made <= Len(call.msgs)
                  /\ batch.err = batch.calls[made].err
                  /\ \A i \in 1..(made - 1) : ~IsFault(batch.calls[i].err)
                  /\ batch.ret = emptyRet
                  /\ st = TreeAfter(made)

\* the second message faults after the first was applied
C10_Witness ==
    /\ AfterApplyMessages
    /\ Len(call.msgs) = 2
    /\ Len(batch.calls) = 2
    /\ batch.calls[1].err = NilErr
    /\ IsFault(batch.err)
    /\ batch.ret = emptyRet
    /\ st # pre

----------------------------------------------------------------------------
(* What a returned ProcessBlock call shows *)

AfterProcessBlock == pc = "done" /\ call.op = "ProcessBlock"
processed == resp[1]

\* What ApplyMessage returns for message i of the call, applied to the tree
\* the messages before it left
OutcomeAt(i) == ApplyMessage(TreeAfter(i - 1), call.msgs[i], call.envs[i])

(* C11. ProcessBlock returns no error iff every message of the block, applied *)
(* in order, was applied (success or execution error); it then returns one    *)
(* result per message, in message order. If some message yields a fault, a    *)
(* permanent failure or a temporary failure it returns an error and the empty *)
(* result list.                                                               *)
C11_BlockValidIffAllApplied ==
    AfterProcessBlock =>
        LET n == Len(call.msgs)
        IN  /\ ~processed.panic
            /\ processed.err = NilErr <=> \A i \in 1..n : OutcomeAt(i).err = NilErr
            /\ processed.err = NilErr =>
                  /\ Len(processed.results) = n
                  /\ \A i \in 1..n : Some(processed.results[i]) = OutcomeAt(i).res
            /\ processed.err # NilErr =>
                  /\ processed.results = <<>>
                  /\ \/ IsFault(processed.err)
                     \/ IsApplyErrorPermanent(processed.err)
                     \/ IsApplyErrorTemporary(processed.err)

\* a valid block of two messages, the second applied with an execution error
C11_Witness ==
    /\ AfterProcessBlock
    /\ processed.err = NilErr
    /\ Len(call.msgs) = 2
    /\ Len(processed.results) = 2
    /\ processed.results[1].ExecutionError = NilErr
    /\ processed.results[2].ExecutionError # NilErr

----------------------------------------------------------------------------
(* What a returned ProcessTipSet call shows *)

AfterProcessTipSet == pc = "done" /\ call.op = "ProcessTipSet"
tipset == call.msgs
tenv1 == call.envs[1]
tipped == resp[1]

\* The messages of the tipset's blocks, block after block in ascending ticket
\* order
RECURSIVE MessagesUpTo(_)
MessagesUpTo(k) ==
    IF k = 0 THEN <<>>
    ELSE LET held == {i \in 1..Len(tipset) : tipset[i].Ticket = k}
         IN  IF held = {} THEN MessagesUpTo(k - 1)
             ELSE MessagesUpTo(k - 1) \o tipset[CHOOSE i \in held : TRUE].Messages

InTicketOrder == MessagesUpTo(Cardinality(Tickets))

\* The first occurrence of every message of a sequence
FirstOccurrences(seq) ==
    LET IsFirst(i) == \A j \in 1..(i - 1) : Cid(seq[j]) # Cid(seq[i])
    IN  Picked(seq, SelectSeq([i \in 1..Len(seq) |-> i], IsFirst))

\* A message whose identifier the tipset carries more than once
Duplicated(c) ==
    Cardinality({i \in 1..Len(InTicketOrder) : Cid(InTicketOrder[i]) = c}) > 1

(* C12. Tipset de-duplication: no content identifier is passed to             *)
(* ApplyMessage twice by one ProcessTipSet call. When the call returns no     *)
(* error, the messages passed are the first occurrences in ticket order of    *)
(* the tipset's messages, every identifier passed is in exactly one of        *)
(* Successes and Failures and nothing else is, and each sender's nonce has    *)
(* advanced by the number of its identifiers in Successes: once at most for   *)
(* an identifier, however many blocks carry it.                               *)
C12_TipSetDeduplication ==
    AfterProcessTipSet =>
        /\ \A i, j \in 1..Len(tipped.passed) :
              i # j => Cid(tipped.passed[i]) # Cid(tipped.passed[j])
        /\ tipped.err = NilErr =>
              /\ tipped.passed = FirstOccurrences(InTicketOrder)
              /\ tipped.res.Successes \cap tipped.res.Failures = {}
              /\ tipped.res.Successes \cup tipped.res.Failures = Cids(tipped.passed)
              /\ \A a \in DOMAIN pre :
                    st[a].nonce = pre[a].nonce
                                  + Cardinality({c \in tipped.res.Successes : c[1] = a})

\* two sibling blocks carry the same message; it is applied once
C12_Witness ==
    /\ AfterProcessTipSet
    /\ tipped.err = NilErr
    /\ Len(tipset) = 2
    /\ \E c \in tipped.res.Successes :
          /\ Duplicated(c)
          /\ \E i \in 1..Len(tipset[1].Messages) : Cid(tipset[1].Messages[i]) = c
          /\ \E i \in 1..Len(tipset[2].Messages) : Cid(tipset[2].Messages[i]) = c
          /\ st[c[1]].nonce = pre[c[1]].nonce + 1

\* The identifiers of the passed messages whose ApplyMessage call took the
\* given case of the switch of ApplyMessages
PassedAs(class) ==
    {Cid(tipped.passed[i]) : i \in {k \in 1..Len(tipped.calls) :
                                       SwitchCase(tipped.calls[k].err) = class}}

(* C13. ProcessTipSet returns an error only for faults, and then the empty   *)
(* response. A permanent or temporary failure of a message does not make it  *)
(* return an error: when the tipset is not empty, no ApplyMessage call       *)
(* returns a fault and no identifier fails to compute, it returns no error,  *)
(* every first occurrence of a message has been passed to ApplyMessage       *)
(* (processing went on after each failure), Failures holds the identifiers   *)
(* of the permanent and temporary failures and Successes those of the        *)
(* applied messages, with one result for each.                               *)
C13_OnlyFaultsAreErrors ==
    AfterProcessTipSet =>
        /\ ~tipped.panic
        /\ Len(tipped.calls) = Len(tipped.passed)
        /\ tipped.err # NilErr => IsFault(tipped.err) /\ tipped.res = emptyRes
        /\ (/\ Len(tipset) > 0
            /\ tenv1.badCid = Nil
            /\ \A i \in 1..Len(tipped.calls) : ~IsFault(tipped.calls[i].err))
              => tipped.err = NilErr
        /\ tipped.err = NilErr =>
              /\ tipped.passed = FirstOccurrences(InTicketOrder)
              /\ tipped.res.Failures = PassedAs("permanent") \cup PassedAs("temporary")
              /\ tipped.res.Successes = PassedAs("default")
              /\ Len(tipped.res.Results) = Cardinality(tipped.res.Successes)

\* a permanent and a temporary failure, and a message applied after both
C13_Witness ==
    /\ AfterProcessTipSet
    /\ tipped.err = NilErr
    /\ \E i, j, k \in 1..Len(tipped.calls) :
          /\ i < k /\ j < k
          /\ IsApplyErrorPermanent(tipped.calls[i].err)
          /\ IsApplyErrorTemporary(tipped.calls[j].err)
          /\ tipped.calls[k].err = NilErr
          /\ Cid(tipped.passed[i]) \in tipped.res.Failures
          /\ Cid(tipped.passed[j]) \in tipped.res.Failures
          /\ Cid(tipped.passed[k]) \in tipped.res.Successes

----------------------------------------------------------------------------
(* C14. In-block ordering and visibility: ApplyMessages applies the messages *)
(* in input order, each to the base tree the one before it left. A message   *)
(* that follows an applied message of the same sender with the next nonce is *)
(* applied too, whether the earlier one succeeded or had an execution error, *)
(* and one that repeats the nonce is rejected as nonce too low; after a      *)
(* successful transfer the next message sees the lowered balance, after an   *)
(* execution error it sees the balance as it was. So messages of one sender  *)
(* with nonces n, n+1, ... from the sender's nonce n are all applied, while  *)
(* n+1 placed before n is a nonce-too-high temporary failure followed by an  *)
(* applied message.                                                          *)
AppliedAt(i) == batch.calls[i].err = NilErr
SucceededAt(i) == AppliedAt(i) /\ batch.calls[i].res[1].ExecutionError = NilErr
Follows(i) ==
    /\ call.msgs[i + 1].from = call.msgs[i].from
    /\ call.msgs[i + 1].to # call.msgs[i + 1].from
    /\ call.msgs[i + 1].nonce = call.msgs[i].nonce + 1

C14_InOrderVisibility ==
    AfterApplyMessages /\ batch.err = NilErr =>
        LET n == Len(call.msgs)
            from == call.msgs[1].from
            Runs == /\ n > 0
                    /\ from \in DOMAIN pre
                    /\ pre[from].code \in {"nil", "account"}
                    /\ call.msgs[1].to # from
                    /\ call.msgs[1].nonce = pre[from].nonce
                    /\ \A i \in 1..(n - 1) : Follows(i)
            Swapped == /\ n = 2
                       /\ from \in DOMAIN pre
                       /\ pre[from].code \in {"nil", "account"}
                       /\ call.msgs[2].from = from
                       /\ call.msgs[1].to # from /\ call.msgs[2].to # from
                       /\ call.msgs[1].nonce = pre[from].nonce + 1
                       /\ call.msgs[2].nonce = pre[from].nonce
        IN  /\ Len(batch.calls) = n
            /\ CallsInOrder
            /\ st = TreeAfter(n)
            /\ Runs => \A i \in 1..n : AppliedAt(i)
            /\ Swapped =>
                  /\ batch.calls[1].err = ApplyErrorTemporaryWrapf(errNonceTooHigh)
                  /\ AppliedAt(2)
            /\ \A i \in 1..(n - 1) :
                  LET seen == TreeAfter(i)[call.msgs[i].from]
                      was == TreeAfter(i - 1)[call.msgs[i].from]
                      next == call.msgs[i + 1]
                  IN  AppliedAt(i) =>
                        /\ seen.nonce = was.nonce + 1
                        /\ Follows(i) => AppliedAt(i + 1)
                        /\ next.from = call.msgs[i].from /\ next.to # next.from
                              /\ next.nonce = call.msgs[i].nonce
                              => batch.calls[i + 1].err
                                    = ApplyErrorPermanentWrapf(errNonceTooLow)
                        /\ SucceededAt(i) => seen.balance = was.balance - call.msgs[i].value
                        /\ ~SucceededAt(i) => seen.balance = was.balance
                        /\ Follows(i) /\ next.value > seen.balance =>
                              batch.calls[i + 1].res[1].ExecutionError = ErrInsufficientBalance
                        /\ Follows(i) /\ next.value <= seen.balance
                              /\ call.envs[i + 1].vm = "ok" => SucceededAt(i + 1)

\* a transfer the VM reverted, then the same transfer with the next nonce:
\* the second sees the advanced nonce and the untouched balance, and succeeds
C14_Witness ==
    /\ AfterApplyMessages
    /\ batch.err = NilErr
    /\ Len(call.msgs) = 2
    /\ Follows(1)
    /\ call.msgs[1].value > 0
    /\ call.msgs[2].value = pre[call.msgs[1].from].balance
    /\ AppliedAt(1) /\ ~SucceededAt(1)
    /\ SucceededAt(2)
    /\ st[call.msgs[1].from].nonce = pre[call.msgs[1].from].nonce + 2

----------------------------------------------------------------------------
\* The base tree after the first k messages ProcessTipSet passed on, each
\* applied by ApplyMessage to the tree the one before it left
RECURSIVE TipTreeAfter(_)
TipTreeAfter(k) ==
    IF k = 0 THEN pre
    ELSE ApplyMessage(TipTreeAfter(k - 1), tipped.passed[k],
                      EnvFor(tipped.passed[k], tenv1)).st

TipCallsInOrder ==
    \A i \in 1..Len(tipped.calls) :
        LET out == ApplyMessage(TipTreeAfter(i - 1), tipped.passed[i],
                                EnvFor(tipped.passed[i], tenv1))
        IN  tipped.calls[i] = [res |-> out.res, err |-> out.err]

\* The tipset with its blocks held the other way round
Reversed(ts) == [i \in 1..Len(ts) |-> ts[Len(ts) + 1 - i]]

\* The messages of the block with ticket k, if the tipset holds one
MessagesOf(k) ==
    LET held == {i \in 1..Len(tipset) : tipset[i].Ticket = k}
    IN  IF held = {} THEN <<>> ELSE tipset[CHOOSE i \in held : TRUE].Messages

(* C15. Tipset ordering: when ProcessTipSet returns no error, the messages   *)
(* it applied are those of its blocks in ascending ticket order (first       *)
(* occurrences), whatever the order in which the tipset holds the blocks;    *)
(* every message is applied to the one base tree as the messages before it   *)
(* left it, so a message of a later-ticket block sees the nonce and the      *)
(* committed balance an earlier-ticket block left; Results holds the results *)
(* of the applied messages in that order; and the tipset held the other way  *)
(* round gives the same response and the same tree.                          *)
C15_TicketOrder ==
    AfterProcessTipSet /\ tipped.err = NilErr =>
        LET applied == SelectSeq([i \in 1..Len(tipped.calls) |-> i],
                                 LAMBDA i : tipped.calls[i].err = NilErr)
            other == ProcessTipSet(Reversed(tipset), tenv1, pre)
        IN  /\ tipped.passed = FirstOccurrences(InTicketOrder)
            /\ TipCallsInOrder
            /\ st = TipTreeAfter(Len(tipped.passed))
            /\ tipped.res.Results = [j \in 1..Len(applied) |-> tipped.calls[applied[j]].res[1]]
            /\ other.res = tipped.res /\ other.err = NilErr /\ other.st = st
            /\ LET b1 == MessagesOf(1)
                   b2 == MessagesOf(2)
                   from == b1[1].from
               IN  (/\ Len(b1) = 1 /\ Len(b2) >= 1
                    /\ from \in DOMAIN pre
                    /\ pre[from].code \in {"nil", "account"}
                    /\ b1[1].to # from
                    /\ b1[1].nonce = pre[from].nonce
                    /\ b1[1].value >= 0 /\ b1[1].value <= pre[from].balance
                    /\ b2[1].from = from /\ b2[1].to # from
                    /\ b2[1].nonce = b1[1].nonce + 1
                    /\ b2[1].value >= 0)
                      => /\ {Cid(b1[1]), Cid(b2[1])} \subseteq tipped.res.Successes
                         /\ tipped.res.Results[1].ExecutionError = NilErr
                         /\ tipped.res.Results[2].ExecutionError = ErrInsufficientBalance
                               <=> b2[1].value > pre[from].balance - b1[1].value

\* the tipset holds the later-ticket block first; its message needs the
\* nonce the earlier-ticket block's message leaves, and is applied
C15_Witness ==
    /\ AfterProcessTipSet
    /\ tipped.err = NilErr
    /\ Len(tipset) = 2
    /\ tipset[1].Ticket > tipset[2].Ticket
    /\ Len(tipset[1].Messages) = 1 /\ Len(tipset[2].Messages) = 1
    /\ tipset[1].Messages[1].nonce = pre[tipset[1].Messages[1].from].nonce + 1
    /\ tipset[2].Messages[1].nonce = pre[tipset[1].Messages[1].from].nonce
    /\ tipped.passed = <<tipset[2].Messages[1], tipset[1].Messages[1]>>
    /\ Len(tipped.res.Results) = 2
    /\ Cardinality(tipped.res.Successes) = 2

----------------------------------------------------------------------------
(* What a returned CallQueryMethod call shows *)

AfterCallQueryMethod == pc = "done" /\ call.op = "CallQueryMethod"
query == call.msgs[1]
answer == resp[1]

(* C16. Query purity: whatever the state, the target, the method, the caller *)
(* and the VM's outcome (success, revert or fault), CallQueryMethod leaves   *)
(* the base tree as it was: what the VM wrote to the overlay is not on the   *)
(* base tree, and no nonce has changed.                                      *)
C16_QueryPurity ==
    AfterCallQueryMethod =>
        /\ st = pre
        /\ \A a \in DOMAIN pre : st[a].nonce = pre[a].nonce
        /\ answer.overlay # Nil =>
              \A a \in DOMAIN answer.overlay[1].cache :
                  a \in DOMAIN pre /\ st[a] = pre[a]

\* the VM spent the target's balance on the overlay; the base tree still has it
C16_Witness ==
    /\ AfterCallQueryMethod
    /\ answer.overlay # Nil
    /\ answer.err = NilErr
    /\ answer.overlay[1].cache[query.to].balance # pre[query.to].balance
    /\ st[query.to].balance = pre[query.to].balance
    /\ st # InitTree

----------------------------------------------------------------------------
\* ctx is cancelled between message k - 1 and message k of the returned call
CancelledBefore(k) ==
    /\ k >= 2 /\ k <= Len(call.msgs)
    /\ call.envs[k - 1].ctx = "live"
    /\ call.envs[k].ctx = "cancelled"

(* C18 as claimed. When ctx is cancelled between two messages of a batch,    *)
(* ApplyMessages applies no further message: it returns a fault, and the     *)
(* base tree is the one the messages before the cancellation left.           *)
C18_CancellationHonoured ==
    AfterApplyMessages =>
        \A k \in 1..Len(call.msgs) :
            CancelledBefore(k) /\ Len(batch.calls) >= k - 1 =>
                /\ IsFault(batch.err)
                /\ \A i \in k..Len(batch.calls) : batch.calls[i].err # NilErr
                /\ st = TreeAfter(k - 1)

----------------------------------------------------------------------------
(* C20. Precedence of the checks made before the VM is invoked: sender not   *)
(* found, send to self, sender not an account actor, nonce. The first that   *)
(* fails decides the outcome, whatever later checks would say and whatever   *)
(* the VM would do: the VM is not invoked (no receipt, no transfer on the    *)
(* overlay). A send to self from an absent sender is a temporary failure     *)
(* (account not found); a send to self from an existing sender is a          *)
(* permanent failure (self-send) whatever its nonce and the sender's code.   *)
NoVMInvoked ==
    /\ attempted.receipt = Nil
    /\ \A a \in DOMAIN attempted.ct.cache :
          attempted.ct.cache[a].balance = IF a \in DOMAIN pre THEN pre[a].balance ELSE 0
    /\ \A o \in VMOutcomes :
          LET other == ApplyMessage(pre, msg1, [vm |-> o, fail |-> env1.fail])
          IN  other.err = ret1.err /\ other.res = ret1.res /\ other.st = st

C20_CheckPrecedence ==
    AfterApplyMessage /\ env1.fail # "getFrom" =>
        LET found == msg1.from \in DOMAIN pre
            self == msg1.from = msg1.to
            sender == pre[msg1.from]
            account == sender.code \in {"nil", "account"}
            reached == env1.fail \notin {"getTo", "upgrade"}
        IN  /\ ~found =>
                  RejectedAs("temporary", errAccountNotFound) /\ NoVMInvoked
            /\ found /\ self =>
                  RejectedAs("permanent", errSelfSend) /\ NoVMInvoked
            /\ found /\ ~self /\ ~account /\ reached =>
                  RejectedAs("permanent", errNonAccountActor) /\ NoVMInvoked
            /\ found /\ ~self /\ account /\ reached /\ msg1.nonce # sender.nonce =>
                  /\ RejectedAs(IF msg1.nonce < sender.nonce THEN "permanent" ELSE "temporary",
                                IF msg1.nonce < sender.nonce THEN errNonceTooLow
                                ELSE errNonceTooHigh)
                  /\ NoVMInvoked
            /\ found /\ ~self /\ account /\ reached /\ msg1.nonce = sender.nonce =>
                  ret1.err.cause \notin {errAccountNotFound.cause, errSelfSend.cause,
                                         errNonAccountActor.cause, errNonceTooLow.cause,
                                         errNonceTooHigh.cause}

\* a send to self with a nonce that is too high, from a sender that exists
\* and is not an account actor: three checks fail, the self-send decides
C20_Witness ==
    /\ AfterApplyMessage
    /\ msg1.from = msg1.to
    /\ msg1.from \in DOMAIN pre
    /\ pre[msg1.from].code = "miner"
    /\ msg1.nonce > pre[msg1.from].nonce
    /\ env1.vm = "fault"
    /\ ret1.err = ApplyErrorPermanentWrapf(errSelfSend)

----------------------------------------------------------------------------
(* C21. An error out of the attempt step that is neither a fault nor a       *)
(* revert error comes out of ApplyMessage as a fault ("someone is a bad      *)
(* programmer"): no result is returned, the overlay is not committed and the *)
(* sender's nonce is not incremented, so the base tree is as before the      *)
(* call.                                                                     *)
C21_OtherErrorIsFault ==
    AfterApplyMessage /\ attempted.err # NilErr
                      /\ ~IsFault(attempted.err) /\ ~ShouldRevert(attempted.err) =>
        /\ ret1.err = NewFaultError("someone is a bad programmer")
        /\ ret1.res = Nil
        /\ st = pre
        /\ st[msg1.from].nonce = pre[msg1.from].nonce

\* the VM moved a positive value on the overlay and returned a plain error
\* with a receipt; nothing of it is on the base tree
C21_Witness ==
    /\ AfterApplyMessage
    /\ attempted.err.kind = "other"
    /\ attempted.receipt # Nil
    /\ msg1.value > 0
    /\ attempted.ct.cache[msg1.to].balance > 0
    /\ msg1.to \notin DOMAIN st
    /\ ret1.res = Nil
    /\ st = pre

----------------------------------------------------------------------------
\* The positions in the passed messages of identifier c
PassedAt(c) == {i \in 1..Len(tipped.passed) : Cid(tipped.passed[i]) = c}

\* The calls of a sender's messages that applied the message
AppliedOf(a) == {i \in 1..Len(tipped.calls) :
                    tipped.passed[i].from = a /\ tipped.calls[i].err = NilErr}

(* C22. In ProcessTipSet the identifier of every considered message is in    *)
(* the filter whatever its outcome: when the call returns no error, a        *)
(* message that got a permanent or temporary failure has been passed to      *)
(* ApplyMessage once only, in the earliest-ticket block that carries it,     *)
(* however many later blocks carry it too; its identifier is in Failures and *)
(* not in Successes, and each sender's nonce has advanced by the number of   *)
(* its applied messages only.                                                *)
C22_FailedNotRetried ==
    AfterProcessTipSet /\ tipped.err = NilErr =>
        /\ \A i \in 1..Len(tipped.calls) :
              tipped.calls[i].err # NilErr =>
                  LET c == Cid(tipped.passed[i])
                  IN  /\ PassedAt(c) = {i}
                      /\ c \in tipped.res.Failures
                      /\ c \notin tipped.res.Successes
                      /\ c \in Cids(MessagesOf(1)) => i <= Len(MessagesOf(1))
        /\ \A a \in DOMAIN pre : st[a].nonce = pre[a].nonce + Cardinality(AppliedOf(a))

\* a message fails on a nonce gap in the earlier-ticket block; the later
\* block fills the gap and carries the message again; it is not tried again
\* though it would be applied now
C22_Witness ==
    /\ AfterProcessTipSet
    /\ tipped.err = NilErr
    /\ \E m \in TipSetMessages :
          /\ Cid(m) \in Cids(MessagesOf(1)) \cap Cids(MessagesOf(2))
          /\ \E i \in PassedAt(Cid(m)) : IsApplyErrorTemporary(tipped.calls[i].err)
          /\ Cid(m) \in tipped.res.Failures
          /\ Cid(m) \notin tipped.res.Successes
          /\ Cardinality(PassedAt(Cid(m))) = 1
          /\ ApplyMessage(st, m, EnvFor(m, tenv1)).err = NilErr
          /\ st[m.from].nonce = pre[m.from].nonce + 1

----------------------------------------------------------------------------
(* C23. Sender upgrade: a message to another address from a sender that is   *)
(* on the tree without code is not rejected as coming from a non-account     *)
(* actor. The sender is upgraded on the overlay to an account actor with its *)
(* balance and nonce as they were, and the message goes on to the nonce      *)
(* check (a wrong nonce is rejected as such) and to the VM. After a          *)
(* successful application the sender on the base tree is an account actor    *)
(* with the nonce one higher; a failing upgrade is a fault.                  *)
C23_SenderUpgrade ==
    AfterApplyMessage /\ msg1.from \in DOMAIN pre /\ msg1.from # msg1.to
                      /\ pre[msg1.from].code = "nil"
                      /\ env1.fail \notin {"getFrom", "getTo"} =>
        LET from == msg1.from
            sender == pre[from]
            upgraded == [sender EXCEPT !.code = "account"]
        IN  /\ ret1.err.cause # errNonAccountActor.cause
            /\ env1.fail = "upgrade" =>
                  /\ ret1.err = FaultErrorWrap(ErrStorage, "failed to upgrade empty actor")
                  /\ st = pre
            /\ env1.fail # "upgrade" /\ msg1.nonce # sender.nonce =>
                  /\ attempted.err = CheckNonce(msg1, upgraded)
                  /\ attempted.ct.cache[from] = upgraded
                  /\ Rejected
            /\ env1.fail # "upgrade" /\ msg1.nonce = sender.nonce =>
                  /\ attempted.err = VMSend(attempted.ct, msg1, upgraded,
                                            attempted.ct.cache[msg1.to], env1.vm).err
                  /\ attempted.ct.cache[from].code = "account"
                  /\ attempted.ct.cache[from].nonce = sender.nonce
            /\ Succeeded =>
                  st[from] = Actor("account", sender.nonce + 1, sender.balance - msg1.value)
            /\ ExecutionErrored =>
                  st[from] = [sender EXCEPT !.nonce = @ + 1]

\* an empty sender holding a balance sends to an actor that exists; after the
\* call it is an account actor with the next nonce
C23_Witness ==
    /\ AfterApplyMessage
    /\ msg1.from \in DOMAIN pre
    /\ pre[msg1.from].code = "nil"
    /\ pre[msg1.from].balance > 0
    /\ msg1.to \in DOMAIN pre
    /\ Succeeded
    /\ st[msg1.from].code = "account"
    /\ st[msg1.from].nonce = pre[msg1.from].nonce + 1

----------------------------------------------------------------------------
\* The positions of the block's messages that fail permanently, temporarily,
\* or with a fault, each message applied to the tree the ones before it left
PermanentAt == {i \in 1..Len(call.msgs) : IsApplyErrorPermanent(OutcomeAt(i).err)}
TemporaryAt == {i \in 1..Len(call.msgs) : IsApplyErrorTemporary(OutcomeAt(i).err)}
FaultAt == {i \in 1..Len(call.msgs) : IsFault(OutcomeAt(i).err)}
First(S) == CHOOSE i \in S : \A j \in S : i <= j

(* C24. ProcessBlock error selection: when no message of the block yields a    *)
(* fault, ProcessBlock returns the error of the first message that failed      *)
(* permanently if there is one, even when a message before it failed           *)
(* temporarily; it returns the error of the first message that failed          *)
(* temporarily only when no message failed permanently.                        *)
C24_PermanentBeforeTemporary ==
    AfterProcessBlock /\ FaultAt = {} =>
        /\ PermanentAt # {} =>
              processed.err = OutcomeAt(First(PermanentAt)).err
        /\ PermanentAt = {} /\ TemporaryAt # {} =>
              processed.err = OutcomeAt(First(TemporaryAt)).err
        /\ IsApplyErrorTemporary(processed.err) => PermanentAt = {}

\* a block whose first failure is temporary and whose later failure is
\* permanent is rejected with the permanent error
C24_Witness ==
    /\ AfterProcessBlock
    /\ FaultAt = {}
    /\ PermanentAt # {}
    /\ TemporaryAt # {}
    /\ First(TemporaryAt) < First(PermanentAt)
    /\ IsApplyErrorPermanent(processed.err)
    /\ processed.err # OutcomeAt(First(TemporaryAt)).err

----------------------------------------------------------------------------
\* The number of ApplyMessage calls a block gets: all of its messages, or the
\* messages up to the first one that yields a fault
MadeCalls == IF FaultAt = {} THEN Len(call.msgs) ELSE First(FaultAt)

\* The positions whose message was applied, and those applied with success
AppliedAt_Block == {i \in 1..MadeCalls : OutcomeAt(i).err = NilErr}
SucceededAt_Block ==
    {i \in AppliedAt_Block : OutcomeAt(i).res[1].ExecutionError = NilErr}

RECURSIVE SumValues(_)
SumValues(S) ==
    IF S = {} THEN 0
    ELSE LET i == CHOOSE j \in S : TRUE
         IN  call.msgs[i].value + SumValues(S \ {i})

PreNonce(a) == IF a \in DOMAIN pre THEN pre[a].nonce ELSE 0
PreBalance(a) == IF a \in DOMAIN pre THEN pre[a].balance ELSE 0

(* C25. No block-level rollback: whatever ProcessBlock returns, the base tree  *)
(* is the one left by applying the block's messages in order, up to the first  *)
(* fault if there is one and all of them otherwise. A classified failure       *)
(* neither stops the loop nor restores the tree: every actor's nonce is up by  *)
(* the number of its applied messages and its balance reflects every           *)
(* successful transfer, before and after a failing message, also when the      *)
(* block is rejected.                                                          *)
C25_NoBlockRollback ==
    AfterProcessBlock =>
        /\ st = TreeAfter(MadeCalls)
        /\ DOMAIN pre \subseteq DOMAIN st
        /\ \A a \in DOMAIN st :
              /\ st[a].nonce = PreNonce(a)
                    + Cardinality({i \in AppliedAt_Block : call.msgs[i].from = a})
              /\ st[a].balance = PreBalance(a)
                    + SumValues({i \in SucceededAt_Block : call.msgs[i].to = a})
                    - SumValues({i \in SucceededAt_Block : call.msgs[i].from = a})
        /\ \A a \in Addrs \ DOMAIN st :
              {i \in SucceededAt_Block : call.msgs[i].to = a} = {}
        /\ processed.err # NilErr /\ AppliedAt_Block # {} => st # pre

\* a block rejected for the permanent failure of its first message, whose
\* second message was applied: the transfer and the nonce are on the base tree
C25_Witness ==
    /\ AfterProcessBlock
    /\ Len(call.msgs) = 2
    /\ IsApplyErrorPermanent(processed.err)
    /\ processed.err = OutcomeAt(1).err
    /\ processed.results = <<>>
    /\ SucceededAt_Block = {2}
    /\ call.msgs[2].to \notin DOMAIN pre
    /\ st[call.msgs[2].to].balance = call.msgs[2].value
    /\ st[call.msgs[2].from].nonce = pre[call.msgs[2].from].nonce + 1

----------------------------------------------------------------------------
(* C26. CallQueryMethod on a target that is not on the state tree returns     *)
(* exit code 1, a permanent apply error and no return bytes; no overlay is    *)
(* made, the VM is not invoked and the target is not created. When the target *)
(* is on the tree (and its lookup does not fail) the call returns the VM's    *)
(* return bytes, exit code and error as they are: a revert stays a revert and *)
(* a fault a fault, neither wrapped as a permanent or temporary apply error.  *)
C26_QueryAbsentTarget ==
    AfterCallQueryMethod =>
        /\ query.to \notin DOMAIN pre =>
              /\ answer.retCode = 1
              /\ IsApplyErrorPermanent(answer.err)
              /\ answer.ret = <<>>
              /\ answer.overlay = Nil
              /\ query.to \notin DOMAIN st
              /\ st = pre
        /\ query.to \in DOMAIN pre /\ call.envs[1].fail = "none" =>
              /\ answer.overlay # Nil
              /\ ~IsApplyErrorPermanent(answer.err)
              /\ ~IsApplyErrorTemporary(answer.err)
              /\ call.envs[1].vm = "ok" =>
                    /\ answer.err = NilErr
                    /\ answer.retCode = 0
                    /\ answer.ret = <<query.method>>
              /\ call.envs[1].vm = "revert" =>
                    /\ answer.err = NewRevertError("actor method reverted")
                    /\ answer.retCode = 1
                    /\ answer.ret = <<>>
              /\ call.envs[1].vm = "fault" =>
                    /\ answer.err = NewFaultError("vm storage corrupted")
                    /\ answer.retCode = 1
                    /\ answer.ret = <<>>

\* a query of an address that is not on the tree, with a VM that would have
\* answered it
C26_Witness ==
    /\ AfterCallQueryMethod
    /\ query.to \notin DOMAIN pre
    /\ call.envs[1] = [vm |-> "ok", fail |-> "none"]
    /\ answer.retCode = 1
    /\ answer.err = ApplyErrorPermanentWrapf(ErrActorNotFound)
    /\ answer.overlay = Nil
    /\ query.to \notin DOMAIN st

====
